---- MODULE Spec2Model ----
(***************************************************************************)
(* Model of the Proxmox provider plugin for Traefik (provider/provider.go). *)
(*                                                                         *)
(* Two specifications:                                                     *)
(*   Spec / FairSpec : the poll loop started by Provide (loadConfiguration, *)
(*                     updateConfiguration, getServiceMap, scanServices),  *)
(*                     Stop, the ticker and the consumer of cfgChan.       *)
(*   SynthSpec       : generateConfiguration as a pure function applied to *)
(*                     node -> services snapshots drawn from bounded sets. *)
(***************************************************************************)
EXTENDS Integers, Sequences, FiniteSets, TLC

VARIABLES
    pc,                 \* position of the goroutine started by Provide
    provided,           \* p.cancel # nil
    cancelled,          \* ctx.Done() is closed
    tickerActive,       \* time.NewTicker was called and ticker.Stop was not
    tickPending,        \* a tick sits in ticker.C (capacity 1)
    ticks,              \* ticks consumed by the select of loadConfiguration
    consumerReceiving,  \* the consumer of cfgChan is still receiving
    panicked,           \* a panic was recovered by the guard of Provide
    cluster,            \* what the Proxmox cluster holds during this cycle
    nodes,              \* result of client.GetNodes in this cycle
    nodeIdx,            \* index of the range loop of getServiceMap
    servicesMap,        \* servicesMap of getServiceMap / generateConfiguration
    listErr,            \* client.GetNodes failed in this cycle
    scanErr,            \* nodes whose scanServices returned an error
    cfgErr,             \* workloads whose Get*Config failed in this cycle
    ipErr,              \* workloads whose getIPsOfService failed in this cycle
    configuration,      \* result of generateConfiguration
    sentThisCycle,      \* payloads sent on cfgChan by the current cycle
    nSent,              \* number of sends on cfgChan so far
    initialOK,          \* GetNodes succeeded in the initial cycle
    runs,               \* SynthSpec: number of runs of generateConfiguration
    previous            \* SynthSpec: result of the run before the last one

vars == <<pc, provided, cancelled, tickerActive, tickPending, ticks,
          consumerReceiving, panicked, cluster, nodes, nodeIdx, servicesMap,
          listErr, scanErr, cfgErr, ipErr, configuration, sentThisCycle,
          nSent, initialOK, runs, previous>>

(***************************************************************************)
(* Bounds                                                                  *)
(***************************************************************************)
MaxTicks == 2
MaxRuns == 2
MaxIPs == 2

(***************************************************************************)
(* Go maps: functions over a finite set of keys                            *)
(***************************************************************************)
EmptyMap == [k \in {} |-> ""]

MapPut(m, k, v) == [x \in (DOMAIN m) \cup {k} |-> IF x = k THEN v ELSE m[x]]

\* All orders in which a range over a map with key set S may visit the keys.
Orders(S) == {o \in [1..Cardinality(S) -> S] : \A i, j \in 1..Cardinality(S) : o[i] = o[j] => i = j}

(***************************************************************************)
(* Directive keys read by generateConfiguration                            *)
(***************************************************************************)
EnableKey == "traefik.enable"
PortKey == "traefik.http.services.port"
RuleKey == "traefik.http.routers.rule"

(***************************************************************************)
(* generateConfiguration                                                   *)
(***************************************************************************)
EmptyConfiguration == [Routers |-> EmptyMap, Services |-> EmptyMap]

\* if enable, exists := service.Config["traefik.enable"]; !exists || enable != "true"
Enabled(config) == EnableKey \in DOMAIN config /\ config[EnableKey] = "true"

\* A mutant of ServiceName: the key is the display name alone.
ServiceNameNoID(service) == service.Name

\* serviceName := fmt.Sprintf("%s-%d", service.Name, service.ID)
ServiceName(service) == service.Name \o "-" \o ToString(service.ID)

\* A mutant of Port: the port directive is ignored.
PortDefault(service) == "80"

\* port := "80"; if customPort, exists := ...; exists { port = customPort }
Port(service) == IF PortKey \in DOMAIN service.Config THEN service.Config[PortKey] ELSE "80"

\* The loop over service.IPs (lines 318-329), after i addresses.
RECURSIVE IPServers(_, _)
IPServers(service, i) ==
    IF i = 0 THEN <<>>
    ELSE IF service.IPs[i].Address # ""
         THEN Append(IPServers(service, i - 1),
                     [URL |-> "http://" \o service.IPs[i].Address \o ":" \o Port(service)])
         ELSE IPServers(service, i - 1)

\* lb.Servers as built by lines 315-339.
Servers(service, nodeName) ==
    IF Len(service.IPs) > 0
    THEN IPServers(service, Len(service.IPs))
    ELSE << [URL |-> "http://" \o service.Name \o "." \o nodeName \o ":" \o Port(service)] >>

\* The backquote of the Go format string "Host(`%s`)": a TLA+ string cannot
\* hold that character, so the model writes it as a single quote.
BQ == "'"

\* A mutant of RouterRule: the rule directive is ignored.
RouterRuleDefault(service) == "Host(" \o BQ \o service.Name \o BQ \o ")"

\* routerRule (lines 347-353)
RouterRule(service) ==
    IF RuleKey \in DOMAIN service.Config
    THEN service.Config[RuleKey]
    ELSE "Host(" \o BQ \o service.Name \o BQ \o ")"

\* The body of the inner loop (lines 299-364) for one service of node nodeName.
AddService(conf, nodeName, service) ==
    IF ~Enabled(service.Config) THEN conf
    ELSE LET serviceName == ServiceName(service)
             servers == Servers(service, nodeName)
         IN  IF Len(servers) > 0
             THEN [Routers |-> MapPut(conf.Routers, serviceName,
                                      [Service |-> serviceName,
                                       Rule |-> RouterRule(service),
                                       Priority |-> 1]),
                   Services |-> MapPut(conf.Services, serviceName,
                                       [PassHostHeader |-> TRUE, Servers |-> servers])]
             ELSE conf

\* The inner loop over the first i services of one node.
RECURSIVE AddServices(_, _, _, _)
AddServices(conf, nodeName, services, i) ==
    IF i = 0 THEN conf
    ELSE AddService(AddServices(conf, nodeName, services, i - 1), nodeName, services[i])

\* The outer loop over the first i nodes visited, in the order the range
\* over the map happens to take.
RECURSIVE AddNodes(_, _, _)
AddNodes(sm, order, i) ==
    IF i = 0 THEN EmptyConfiguration
    ELSE AddServices(AddNodes(sm, order, i - 1), order[i], sm[order[i]], Len(sm[order[i]]))

generateConfiguration(sm, order) == AddNodes(sm, order, Len(order))

(***************************************************************************)
(* internal.Service and internal.IP (package internal)                     *)
(***************************************************************************)
\* internal.NewService(id, name, config): the record, with no addresses yet.
NewService(id, name, config) == [ID |-> id, Name |-> name, Config |-> config, IPs |-> <<>>]

\* The []internal.IP holding the given addresses.
IPList(addresses) == [i \in 1..Len(addresses) |-> [Address |-> addresses[i]]]

SeqsUpTo(S, n) == UNION {[1..k -> S] : k \in 0..n}

(***************************************************************************)
(* SynthSpec: generateConfiguration applied to snapshots                   *)
(***************************************************************************)
SynthNodes == {"pve1", "pve2"}
SynthAddresses == {"", "10.0.0.5", "10.0.0.6"}

\* Directive maps: no directive, enabled (alone, with a port, with a rule),
\* and values of traefik.enable other than "true".
SynthConfigs ==
    { EmptyMap,
      (EnableKey :> "true"),
      (EnableKey :> "true") @@ (PortKey :> "8080"),
      (EnableKey :> "true") @@ (RuleKey :> ("Host(" \o BQ \o "x.com" \o BQ \o ")")),
      (EnableKey :> "false"),
      (EnableKey :> "1"),
      (EnableKey :> "yes") @@ (PortKey :> "8080") }

\* Workload 100: always named "web", on pve1, any directive map, any address
\* list of at most MaxIPs addresses.  Zero or one placement.
SynthFirst ==
    {<<>>} \cup
    { << [node |-> "pve1",
          service |-> [NewService(100, "web", c) EXCEPT !.IPs = IPList(a)]] >> :
        c \in SynthConfigs, a \in SeqsUpTo(SynthAddresses, MaxIPs) }

\* Workload 101: enabled, on either node, with the same display name as
\* workload 100 or another one.  Zero or one placement.
SynthSecond ==
    {<<>>} \cup
    { << [node |-> n,
          service |-> [NewService(101, name, c) EXCEPT !.IPs = IPList(a)]] >> :
        n \in SynthNodes, name \in {"web", "db"},
        c \in {(EnableKey :> "true"), (EnableKey :> "true") @@ (PortKey :> "8080")},
        a \in {<<>>, <<"10.0.0.6">>} }

\* The services placed on node n, in the order of the placements.
RECURSIVE ServicesOn(_, _)
ServicesOn(placements, n) ==
    IF placements = <<>> THEN <<>>
    ELSE LET rest == ServicesOn(Tail(placements), n)
         IN  IF Head(placements).node = n THEN <<Head(placements).service>> \o rest ELSE rest

\* Snapshots in which workload IDs are unique across the cluster.
SynthSnapshots ==
    { [n \in SynthNodes |-> ServicesOn(p, n)] :
        p \in { a \o b : a \in SynthFirst, b \in SynthSecond } \cup
              { b \o a : a \in SynthFirst, b \in SynthSecond } }

\* State of the provider before Provide: nothing started, nothing read.
Idle ==
    /\ provided = FALSE
    /\ cancelled = FALSE
    /\ tickerActive = FALSE
    /\ tickPending = FALSE
    /\ ticks = 0
    /\ consumerReceiving = TRUE
    /\ panicked = FALSE
    /\ cluster = EmptyMap
    /\ nodes = <<>>
    /\ nodeIdx = 0
    /\ listErr = FALSE
    /\ scanErr = {}
    /\ cfgErr = {}
    /\ ipErr = {}
    /\ sentThisCycle = <<>>
    /\ nSent = 0
    /\ initialOK = FALSE

pollVars == <<provided, cancelled, tickerActive, tickPending, ticks,
              consumerReceiving, panicked, cluster, nodes, nodeIdx, listErr,
              scanErr, cfgErr, ipErr, sentThisCycle, nSent, initialOK>>

SynthInit ==
    /\ Idle
    /\ pc = "synth"
    /\ servicesMap \in SynthSnapshots
    /\ configuration = EmptyConfiguration
    /\ previous = EmptyConfiguration
    /\ runs = 0

\* One more run of generateConfiguration on the same snapshot, the range over
\* the map taking any order.
Synthesize ==
    /\ pc = "synth"
    /\ runs < MaxRuns
    /\ \E order \in Orders(DOMAIN servicesMap) :
           configuration' = generateConfiguration(servicesMap, order)
    /\ previous' = configuration
    /\ runs' = runs + 1
    /\ UNCHANGED <<pc, servicesMap>>
    /\ UNCHANGED pollVars

SynthNext == Synthesize

SynthSpec == SynthInit /\ [][SynthNext]_vars

(***************************************************************************)
(* The cluster read by the Proxmox client                                  *)
(***************************************************************************)
\* A workload as the cluster reports it: the entry of the VM or container
\* listing (VMID, Name, Status), the directive map of its description
\* (config.GetTraefikMap()) and the addresses of its interfaces
\* (interfaces.GetIPs()).
Workload(id, name, status, labels, addresses) ==
    [VMID |-> id, Name |-> name, Status |-> status, Labels |-> labels, Addresses |-> addresses]

\* Each workload is stopped with traefik.enable=true, running without
\* enablement, or running with traefik.enable=true.
VM100 ==
    { Workload(100, "web", "stopped", (EnableKey :> "true"), <<"10.0.0.5">>),
      Workload(100, "web", "running", (EnableKey :> "false"), <<"10.0.0.5">>),
      Workload(100, "web", "running", (EnableKey :> "true") @@ (PortKey :> "8080"), <<"10.0.0.5">>) }

CT101 ==
    { Workload(101, "db", "stopped", (EnableKey :> "true"), <<>>),
      Workload(101, "db", "running", EmptyMap, <<>>),
      Workload(101, "db", "running", (EnableKey :> "true"), <<>>) }

VM102 ==
    { Workload(102, "web", "stopped", (EnableKey :> "true"), <<"", "10.0.0.6">>),
      Workload(102, "web", "running", (EnableKey :> "1"), <<"", "10.0.0.6">>),
      Workload(102, "web", "running", (EnableKey :> "true"), <<"", "10.0.0.6">>) }

\* Node pve1 holds VM 100 and container 101, node pve2 holds VM 102.
PollClusters ==
    { ("pve1" :> [vms |-> <<a>>, cts |-> <<b>>]) @@ ("pve2" :> [vms |-> <<c>>, cts |-> <<>>]) :
        a \in VM100, b \in CT101, c \in VM102 }

NodeList == <<"pve1", "pve2">>

(***************************************************************************)
(* scanServices                                                            *)
(***************************************************************************)
\* A mutant of Running: the status of the workload is not looked at.
RunningAny(w) == TRUE

\* if vm.Status == "running" (line 219), if ct.Status == "running" (line 249)
Running(w) == w.Status = "running"

\* A mutant of scanList: a failed interface lookup skips the workload.
RECURSIVE scanListDropOnIPError(_, _, _, _)
scanListDropOnIPError(ws, i, cfgFail, ipFail) ==
    IF i = 0 THEN <<>>
    ELSE LET before == scanListDropOnIPError(ws, i - 1, cfgFail, ipFail)
             w == ws[i]
             service == NewService(w.VMID, w.Name, w.Labels)
         IN  IF ~Running(w) THEN before
             ELSE IF w.VMID \in cfgFail THEN before
             ELSE IF w.VMID \in ipFail THEN before
             ELSE Append(before, [service EXCEPT !.IPs = IPList(w.Addresses)])

\* One of the two loops of scanServices over the first i entries of a
\* listing; cfgFail and ipFail are the workloads whose config read and whose
\* interface lookup fail.
RECURSIVE scanList(_, _, _, _)
scanList(ws, i, cfgFail, ipFail) ==
    IF i = 0 THEN <<>>
    ELSE LET before == scanList(ws, i - 1, cfgFail, ipFail)
             w == ws[i]
             service == NewService(w.VMID, w.Name, w.Labels)
         IN  IF ~Running(w) THEN before
             ELSE IF w.VMID \in cfgFail THEN before
             ELSE IF w.VMID \in ipFail THEN Append(before, service)
             ELSE Append(before, [service EXCEPT !.IPs = IPList(w.Addresses)])

\* A mutant of scanServices: a failed config read returns the error instead
\* of skipping the workload.
scanServicesAbort(node, vmErr, ctErr, cfgFail, ipFail) ==
    IF vmErr \/ ctErr THEN [err |-> TRUE, services |-> <<>>]
    ELSE IF \E i \in 1..Len(node.vms) : node.vms[i].Status = "running" /\ node.vms[i].VMID \in cfgFail
         THEN [err |-> TRUE, services |-> <<>>]
    ELSE [err |-> FALSE,
          services |-> scanList(node.vms, Len(node.vms), cfgFail, ipFail) \o
                       scanList(node.cts, Len(node.cts), cfgFail, ipFail)]

\* A mutant of scanServices: a failed container listing returns the VMs
\* gathered so far, without an error.
scanServicesPartial(node, vmErr, ctErr, cfgFail, ipFail) ==
    IF vmErr THEN [err |-> TRUE, services |-> <<>>]
    ELSE IF ctErr THEN [err |-> FALSE,
                        services |-> scanList(node.vms, Len(node.vms), cfgFail, ipFail)]
    ELSE [err |-> FALSE,
          services |-> scanList(node.vms, Len(node.vms), cfgFail, ipFail) \o
                       scanList(node.cts, Len(node.cts), cfgFail, ipFail)]

\* scanServices on a node holding node.vms and node.cts; vmErr and ctErr say
\* whether GetVirtualMachines and GetContainers fail.
scanServices(node, vmErr, ctErr, cfgFail, ipFail) ==
    IF vmErr THEN [err |-> TRUE, services |-> <<>>]
    ELSE IF ctErr THEN [err |-> TRUE, services |-> <<>>]
    ELSE [err |-> FALSE,
          services |-> scanList(node.vms, Len(node.vms), cfgFail, ipFail) \o
                       scanList(node.cts, Len(node.cts), cfgFail, ipFail)]

IDsOf(ws) == {ws[i].VMID : i \in {j \in 1..Len(ws) : Running(ws[j])}}

\* The workloads whose configuration scanServices asks for.
ConfigReads(node, vmErr, ctErr) ==
    IF vmErr THEN {} ELSE IF ctErr THEN IDsOf(node.vms) ELSE IDsOf(node.vms) \cup IDsOf(node.cts)

(***************************************************************************)
(* Spec: Provide, the poll loop, Stop                                      *)
(***************************************************************************)
Init ==
    /\ Idle
    /\ pc = "idle"
    /\ servicesMap = EmptyMap
    /\ configuration = EmptyConfiguration
    /\ previous = EmptyConfiguration
    /\ runs = 0

synthVars == <<runs, previous>>
flagVars == <<provided, cancelled, tickPending, consumerReceiving>>
cycleVars == <<cluster, nodes, nodeIdx, servicesMap, listErr, scanErr, cfgErr, ipErr,
               configuration, sentThisCycle>>

\* The locals of updateConfiguration at the start of a poll cycle.
NewCycle ==
    /\ cluster' = EmptyMap
    /\ nodes' = <<>>
    /\ nodeIdx' = 0
    /\ servicesMap' = EmptyMap
    /\ listErr' = FALSE
    /\ scanErr' = {}
    /\ cfgErr' = {}
    /\ ipErr' = {}
    /\ configuration' = EmptyConfiguration
    /\ sentThisCycle' = <<>>

\* Provide: creates the context, stores its cancel function, starts the goroutine.
Provide ==
    /\ pc = "idle"
    /\ provided' = TRUE
    /\ cancelled' = FALSE
    /\ pc' = "start"
    /\ UNCHANGED <<tickerActive, tickPending, ticks, consumerReceiving, panicked,
                   nSent, initialOK>>
    /\ UNCHANGED cycleVars
    /\ UNCHANGED synthVars

\* Stop: if p.cancel != nil { p.cancel() }
Stop ==
    /\ cancelled' = (IF provided THEN TRUE ELSE cancelled)
    /\ UNCHANGED <<pc, provided, tickerActive, tickPending, ticks, consumerReceiving,
                   panicked, nSent, initialOK>>
    /\ UNCHANGED cycleVars
    /\ UNCHANGED synthVars

\* A mutant of LoadConfigurationStart: no initial cycle, the loop waits for
\* the first tick.
LoadConfigurationNoInitial ==
    /\ pc = "start"
    /\ tickerActive' = TRUE
    /\ pc' = "select"
    /\ NewCycle
    /\ UNCHANGED <<ticks, panicked, nSent, initialOK>>
    /\ UNCHANGED flagVars
    /\ UNCHANGED synthVars

\* loadConfiguration up to the initial call of updateConfiguration:
\* the ticker is created, then the initial cycle begins.
LoadConfigurationStart ==
    /\ pc = "start"
    /\ tickerActive' = TRUE
    /\ pc' = "update"
    /\ NewCycle
    /\ UNCHANGED <<ticks, panicked, nSent, initialOK>>
    /\ UNCHANGED flagVars
    /\ UNCHANGED synthVars

\* The runtime timer puts a tick in ticker.C; a tick is dropped while one is pending.
Tick ==
    /\ tickerActive
    /\ ~tickPending
    /\ tickPending' = TRUE
    /\ UNCHANGED <<pc, provided, cancelled, tickerActive, ticks, consumerReceiving,
                   panicked, nSent, initialOK>>
    /\ UNCHANGED cycleVars
    /\ UNCHANGED synthVars

\* A mutant of GetNodesFails: the failed cycle publishes an empty configuration.
GetNodesFailsPublishesEmpty ==
    /\ pc = "update"
    /\ listErr' = TRUE
    /\ pc' = "send"
    /\ UNCHANGED <<cluster, nodes, nodeIdx, servicesMap, scanErr, cfgErr, ipErr,
                   configuration, sentThisCycle>>
    /\ UNCHANGED <<tickerActive, ticks, panicked, nSent, initialOK>>
    /\ UNCHANGED flagVars
    /\ UNCHANGED synthVars

\* getServiceMap: client.GetNodes fails; updateConfiguration returns the
\* error, loadConfiguration logs it and goes (back) to the select.
GetNodesFails ==
    /\ pc = "update"
    /\ listErr' = TRUE
    /\ pc' = "select"
    /\ UNCHANGED <<cluster, nodes, nodeIdx, servicesMap, scanErr, cfgErr, ipErr,
                   configuration, sentThisCycle>>
    /\ UNCHANGED <<tickerActive, ticks, panicked, nSent, initialOK>>
    /\ UNCHANGED flagVars
    /\ UNCHANGED synthVars

\* getServiceMap: client.GetNodes returns the nodes of the cluster.
GetNodesSucceeds ==
    /\ pc = "update"
    /\ cluster' \in PollClusters
    /\ nodes' = NodeList
    /\ nodeIdx' = 1
    /\ servicesMap' = EmptyMap
    /\ initialOK' = (initialOK \/ ticks = 0)
    /\ pc' = "scan"
    /\ UNCHANGED <<listErr, scanErr, cfgErr, ipErr, configuration, sentThisCycle>>
    /\ UNCHANGED <<tickerActive, ticks, panicked, nSent>>
    /\ UNCHANGED flagVars
    /\ UNCHANGED synthVars

\* One iteration of the loop of getServiceMap over the nodes.
ScanNode ==
    /\ pc = "scan"
    /\ nodeIdx <= Len(nodes)
    /\ LET name == nodes[nodeIdx]
           node == cluster[name]
           ids == IDsOf(node.vms) \cup IDsOf(node.cts)
       IN  \E vmErr \in BOOLEAN : \E ctErr \in BOOLEAN :
           \E cfgFail \in SUBSET ids : \E ipFail \in SUBSET ids :
              LET r == scanServices(node, vmErr, ctErr, cfgFail, ipFail)
                  asked == ConfigReads(node, vmErr, ctErr)
              IN  /\ servicesMap' = IF r.err THEN servicesMap
                                    ELSE MapPut(servicesMap, name, r.services)
                  /\ scanErr' = IF vmErr \/ ctErr THEN scanErr \cup {name} ELSE scanErr
                  /\ cfgErr' = cfgErr \cup (cfgFail \cap asked)
                  /\ ipErr' = ipErr \cup (ipFail \cap (asked \ cfgFail))
    /\ nodeIdx' = nodeIdx + 1
    /\ UNCHANGED <<pc, cluster, nodes, listErr, configuration, sentThisCycle>>
    /\ UNCHANGED <<tickerActive, ticks, panicked, nSent, initialOK>>
    /\ UNCHANGED flagVars
    /\ UNCHANGED synthVars

\* getServiceMap returns the map; generateConfiguration builds the payload.
Generate ==
    /\ pc = "scan"
    /\ nodeIdx > Len(nodes)
    /\ \E order \in Orders(DOMAIN servicesMap) :
           configuration' = generateConfiguration(servicesMap, order)
    /\ pc' = "send"
    /\ UNCHANGED <<cluster, nodes, nodeIdx, servicesMap, listErr, scanErr, cfgErr, ipErr,
                   sentThisCycle>>
    /\ UNCHANGED <<tickerActive, ticks, panicked, nSent, initialOK>>
    /\ UNCHANGED flagVars
    /\ UNCHANGED synthVars

\* cfgChan <- &dynamic.JSONPayload{Configuration: configuration}: the send
\* completes when the consumer receives.
Send ==
    /\ pc = "send"
    /\ consumerReceiving
    /\ sentThisCycle' = Append(sentThisCycle, configuration)
    /\ nSent' = nSent + 1
    /\ pc' = "select"
    /\ UNCHANGED <<cluster, nodes, nodeIdx, servicesMap, listErr, scanErr, cfgErr, ipErr,
                   configuration>>
    /\ UNCHANGED <<tickerActive, ticks, panicked, initialOK>>
    /\ UNCHANGED flagVars
    /\ UNCHANGED synthVars

\* select, case <-ticker.C: the next cycle begins.
ConsumeTick ==
    /\ pc = "select"
    /\ tickPending
    /\ ticks < MaxTicks
    /\ tickPending' = FALSE
    /\ ticks' = ticks + 1
    /\ pc' = "update"
    /\ NewCycle
    /\ UNCHANGED <<provided, cancelled, consumerReceiving>>
    /\ UNCHANGED <<tickerActive, panicked, nSent, initialOK>>
    /\ UNCHANGED synthVars

\* select, case <-ctx.Done(): return; the deferred ticker.Stop() runs.
ObserveDone ==
    /\ pc = "select"
    /\ cancelled
    /\ pc' = "exited"
    /\ tickerActive' = FALSE
    /\ UNCHANGED <<ticks, panicked, nSent, initialOK>>
    /\ UNCHANGED flagVars
    /\ UNCHANGED cycleVars
    /\ UNCHANGED synthVars

\* A mutant of Panic: the fault is recovered inside the loop, which goes on.
PanicContinues ==
    /\ pc \in {"update", "scan", "send"}
    /\ panicked' = TRUE
    /\ pc' = "select"
    /\ UNCHANGED <<tickerActive, ticks, nSent, initialOK>>
    /\ UNCHANGED flagVars
    /\ UNCHANGED cycleVars
    /\ UNCHANGED synthVars

\* A panic inside updateConfiguration unwinds loadConfiguration (its deferred
\* ticker.Stop() runs) up to the deferred recover of the goroutine of
\* Provide, which logs it; the goroutine ends.
Panic ==
    /\ pc \in {"update", "scan", "send"}
    /\ panicked' = TRUE
    /\ pc' = "exited"
    /\ tickerActive' = FALSE
    /\ UNCHANGED <<ticks, nSent, initialOK>>
    /\ UNCHANGED flagVars
    /\ UNCHANGED cycleVars
    /\ UNCHANGED synthVars

\* The consumer of cfgChan stops receiving.
ConsumerStop ==
    /\ consumerReceiving
    /\ consumerReceiving' = FALSE
    /\ UNCHANGED <<pc, provided, cancelled, tickerActive, tickPending, ticks,
                   panicked, nSent, initialOK>>
    /\ UNCHANGED cycleVars
    /\ UNCHANGED synthVars

\* The steps of the goroutine started by Provide.
Loop ==
    \/ LoadConfigurationStart
    \/ GetNodesFails
    \/ GetNodesSucceeds
    \/ ScanNode
    \/ Generate
    \/ Send
    \/ ConsumeTick
    \/ ObserveDone

Next ==
    \/ Provide
    \/ Stop
    \/ Tick
    \/ ConsumerStop
    \/ Panic
    \/ Loop

Spec == Init /\ [][Next]_vars

\* The Go scheduler runs the goroutine whenever it can take a step.
FairSpec == Spec /\ WF_vars(Loop)

(***************************************************************************)
(* Properties of the poll loop (Spec, FairSpec)                            *)
(***************************************************************************)
\* The workloads of the cluster read in this cycle, each with its node.
ClusterWorkloads ==
    UNION { {[node |-> n, w |-> cluster[n].vms[i]] : i \in 1..Len(cluster[n].vms)} \cup
            {[node |-> n, w |-> cluster[n].cts[i]] : i \in 1..Len(cluster[n].cts)} :
            n \in DOMAIN cluster }

WorkloadKey(w) == w.Name \o "-" \o ToString(w.VMID)

IsRunning(w) == w.Status = "running"

IsEnabled(w) == EnableKey \in DOMAIN w.Labels /\ w.Labels[EnableKey] = "true"

\* C1: every router key and every service key of a configuration sent on
\* cfgChan is "<name>-<id>" of a workload that the cluster read of the same
\* cycle reported as running and with traefik.enable equal to "true".
C1_PublishedEntriesSound ==
    \A i \in 1..Len(sentThisCycle) :
        \A k \in (DOMAIN sentThisCycle[i].Routers) \cup (DOMAIN sentThisCycle[i].Services) :
            \E x \in ClusterWorkloads :
                WorkloadKey(x.w) = k /\ IsRunning(x.w) /\ IsEnabled(x.w)

\* A configuration with a router was sent by a cycle after the first one,
\* whose cluster also held a stopped workload that has traefik.enable=true
\* and a running workload that is not enabled.
C1_Witness ==
    /\ ticks >= 1
    /\ Len(sentThisCycle) = 1
    /\ DOMAIN sentThisCycle[1].Routers # {}
    /\ \E x \in ClusterWorkloads : ~IsRunning(x.w) /\ IsEnabled(x.w)
    /\ \E x \in ClusterWorkloads : IsRunning(x.w) /\ ~IsEnabled(x.w)

\* C2: once Stop has cancelled the context, no configuration is sent on
\* cfgChan any more.
C2_NoSendAfterCancel == [][cancelled => nSent' = nSent]_vars

\* C3: a configuration that is sent holds a router and a service for every
\* workload of the cluster that is running with traefik.enable=true.
C3_NeverPartial ==
    \A i \in 1..Len(sentThisCycle) :
        \A x \in ClusterWorkloads :
            IsRunning(x.w) /\ IsEnabled(x.w) =>
                /\ WorkloadKey(x.w) \in DOMAIN sentThisCycle[i].Routers
                /\ WorkloadKey(x.w) \in DOMAIN sentThisCycle[i].Services

\* The workload was gathered with at least one usable address, or with none
\* at all (the fallback endpoint is then built).
HasEndpoint(w) ==
    \/ w.VMID \in ipErr
    \/ w.Addresses = <<>>
    \/ \E j \in 1..Len(w.Addresses) : w.Addresses[j] # ""

\* C3 (amended): a configuration that is sent holds a router and a service
\* for every workload that is running with traefik.enable=true on a node
\* whose VM and container listings both succeeded in that cycle, whose own
\* config read succeeded, and for which at least one endpoint was built.
C3_CompleteForSuccessfulReads ==
    \A i \in 1..Len(sentThisCycle) :
        \A x \in ClusterWorkloads :
            /\ IsRunning(x.w) /\ IsEnabled(x.w)
            /\ x.node \notin scanErr
            /\ x.w.VMID \notin cfgErr
            /\ HasEndpoint(x.w)
            => /\ WorkloadKey(x.w) \in DOMAIN sentThisCycle[i].Routers
               /\ WorkloadKey(x.w) \in DOMAIN sentThisCycle[i].Services

\* A configuration was sent by a cycle in which the config read of one
\* enabled running workload failed, while another enabled running workload
\* of the same node was read and is published.
C3_Witness ==
    /\ Len(sentThisCycle) = 1
    /\ \E x, y \in ClusterWorkloads :
          /\ x.node = y.node /\ x.node \notin scanErr
          /\ IsRunning(x.w) /\ IsEnabled(x.w) /\ x.w.VMID \in cfgErr
          /\ IsRunning(y.w) /\ IsEnabled(y.w) /\ y.w.VMID \notin cfgErr
          /\ WorkloadKey(y.w) \in DOMAIN sentThisCycle[1].Routers
          /\ WorkloadKey(x.w) \notin DOMAIN sentThisCycle[1].Routers

\* C4: a cycle whose node listing failed sends nothing; the loop then waits
\* in the select with its ticker running, it leaves that wait only by
\* consuming a tick, which starts a fresh cycle, or by observing the
\* cancellation.
C4_ListFailureSkipsCycle ==
    /\ [](listErr => /\ sentThisCycle = <<>>
                     /\ pc \in {"select", "exited"}
                     /\ (pc = "select" => tickerActive)
                     /\ (pc = "exited" => cancelled))
    /\ [][listErr /\ pc' # pc =>
            \/ /\ pc' = "update" /\ ticks' = ticks + 1 /\ ~listErr'
               /\ servicesMap' = EmptyMap /\ sentThisCycle' = <<>> /\ nSent' = nSent
            \/ /\ pc' = "exited" /\ cancelled /\ nSent' = nSent]_vars

\* The listing of the initial cycle failed and nothing was sent; the cycle
\* of the first tick then ran and published.
C4_Witness ==
    /\ ~initialOK
    /\ ticks = 1
    /\ nSent = 1
    /\ Len(sentThisCycle) = 1
    /\ pc = "select"

\* C5: when the loop first waits on the timer it has performed one full
\* cycle (the listing failed, or a configuration was sent), and if the
\* listing of the initial cycle succeeded a configuration is sent before any
\* tick is consumed.
C5_EagerFirstPublish ==
    /\ (pc = "select" /\ ticks = 0) => (listErr \/ Len(sentThisCycle) = 1)
    /\ (ticks >= 1 /\ initialOK) => nSent >= 1

\* The first configuration is out while the first tick is pending, unconsumed.
C5_Witness ==
    /\ pc = "select"
    /\ ticks = 0
    /\ tickPending
    /\ nSent = 1
    /\ DOMAIN sentThisCycle[1].Routers # {}

C7_StopEventuallyExits == (provided /\ cancelled) ~> (pc = "exited" /\ ~tickerActive)

\* The workloads a cycle gathers and publishes: running with
\* traefik.enable=true, on a node whose two listings succeeded, with a
\* successful config read and at least one endpoint.
PublishedWorkloads ==
    {x \in ClusterWorkloads :
        /\ IsRunning(x.w) /\ IsEnabled(x.w)
        /\ x.node \notin scanErr
        /\ x.w.VMID \notin cfgErr
        /\ HasEndpoint(x.w)}

\* C12: a cycle with failed node scans or failed config reads still
\* publishes; the map it gathered holds exactly the nodes whose VM and
\* container listings both succeeded, and the routers and services sent are
\* exactly those of the workloads of these nodes whose own config read
\* succeeded: a node with a failed listing contributes nothing, not even its
\* VMs scanned before the container listing failed, and a failed config read
\* removes that workload only.
C12_FailureIsolation ==
    \A i \in 1..Len(sentThisCycle) :
        /\ DOMAIN servicesMap = {nodes[j] : j \in 1..Len(nodes)} \ scanErr
        /\ DOMAIN sentThisCycle[i].Routers = {WorkloadKey(x.w) : x \in PublishedWorkloads}
        /\ DOMAIN sentThisCycle[i].Services = {WorkloadKey(x.w) : x \in PublishedWorkloads}

\* A configuration was sent by a cycle in which the scan of pve1 failed at
\* the container listing, after its enabled running VM had been scanned (its
\* interface lookup was made), while pve2 was scanned: the VM of pve1 is
\* not published, the one of pve2 is.
C12_Witness ==
    /\ Len(sentThisCycle) = 1
    /\ scanErr = {"pve1"}
    /\ \E x, y \in ClusterWorkloads :
          /\ x.node = "pve1" /\ IsRunning(x.w) /\ IsEnabled(x.w)
          /\ x.w.VMID \in ipErr /\ x.w.VMID \notin cfgErr
          /\ WorkloadKey(x.w) \notin DOMAIN sentThisCycle[1].Routers
          /\ y.node = "pve2" /\ IsRunning(y.w) /\ IsEnabled(y.w)
          /\ WorkloadKey(y.w) \in DOMAIN sentThisCycle[1].Routers

\* The services gathered for node n in this cycle.
Gathered(n) == IF n \in DOMAIN servicesMap THEN servicesMap[n] ELSE <<>>

\* C13: in a cycle that sent a configuration, a running workload whose
\* config read succeeded and whose interface lookup failed, on a node whose
\* listings succeeded, was gathered as a service with an empty address list;
\* if it is enabled, the configuration sent has its backend with the single
\* endpoint http://<name>.<node>:<port>, and its router.
C13_LookupFailureTolerated ==
    \A i \in 1..Len(sentThisCycle) :
        \A x \in ClusterWorkloads :
            /\ IsRunning(x.w)
            /\ x.node \notin scanErr
            /\ x.w.VMID \notin cfgErr
            /\ x.w.VMID \in ipErr
            => /\ \E j \in 1..Len(Gathered(x.node)) :
                     /\ Gathered(x.node)[j].ID = x.w.VMID
                     /\ Gathered(x.node)[j].IPs = <<>>
               /\ IsEnabled(x.w) =>
                     /\ WorkloadKey(x.w) \in DOMAIN sentThisCycle[i].Routers
                     /\ WorkloadKey(x.w) \in DOMAIN sentThisCycle[i].Services
                     /\ sentThisCycle[i].Services[WorkloadKey(x.w)].Servers =
                            << [URL |-> "http://" \o x.w.Name \o "." \o x.node \o ":" \o
                                        (IF PortKey \in DOMAIN x.w.Labels
                                         THEN x.w.Labels[PortKey] ELSE "80")] >>

\* The interface lookup of an enabled running VM that has an address and a
\* port directive failed, and the configuration sent holds its fallback
\* endpoint.
C13_Witness ==
    /\ Len(sentThisCycle) = 1
    /\ \E x \in ClusterWorkloads :
          /\ IsRunning(x.w) /\ IsEnabled(x.w)
          /\ x.w.Addresses # <<>>
          /\ PortKey \in DOMAIN x.w.Labels
          /\ x.w.VMID \in ipErr
          /\ WorkloadKey(x.w) \in DOMAIN sentThisCycle[1].Services
          /\ Len(sentThisCycle[1].Services[WorkloadKey(x.w)].Servers) = 1

(***************************************************************************)
(* Properties of generateConfiguration (SynthSpec)                         *)
(***************************************************************************)
\* The services of the snapshot, each with its node.
SnapshotServices ==
    UNION { {[node |-> n, s |-> servicesMap[n][i]] : i \in 1..Len(servicesMap[n])} :
            n \in DOMAIN servicesMap }

ServiceKey(s) == s.Name \o "-" \o ToString(s.ID)

ServiceEnabled(s) == EnableKey \in DOMAIN s.Config /\ s.Config[EnableKey] = "true"

ExpectedPort(s) == IF PortKey \in DOMAIN s.Config THEN s.Config[PortKey] ELSE "80"

NonEmptyAddresses(s) == SelectSeq(s.IPs, LAMBDA ip : ip.Address # "")

\* The endpoint URLs the claim gives a service s of node n.
ExpectedEndpoints(s, n) ==
    IF s.IPs = <<>>
    THEN << "http://" \o s.Name \o "." \o n \o ":" \o ExpectedPort(s) >>
    ELSE [j \in 1..Len(NonEmptyAddresses(s)) |->
             "http://" \o NonEmptyAddresses(s)[j].Address \o ":" \o ExpectedPort(s)]

URLs(servers) == [j \in 1..Len(servers) |-> servers[j].URL]

\* C8: the backend of an enabled service has, for an empty address list,
\* the one endpoint http://<name>.<node>:<port>, and otherwise one endpoint
\* http://<address>:<port> per non-empty address, in list order, and no
\* other; port is the port directive if present, else "80".  A backend is
\* there whenever that list of endpoints is not empty.
C8_EndpointList ==
    runs >= 1 =>
        \A x \in SnapshotServices :
            ServiceEnabled(x.s) =>
                /\ ServiceKey(x.s) \in DOMAIN configuration.Services =>
                       URLs(configuration.Services[ServiceKey(x.s)].Servers)
                           = ExpectedEndpoints(x.s, x.node)
                /\ ExpectedEndpoints(x.s, x.node) # <<>> =>
                       ServiceKey(x.s) \in DOMAIN configuration.Services

\* Synthesis ran on a snapshot holding an enabled service with a port
\* directive and an address list mixing an empty and a non-empty address,
\* and an enabled service with no address: both have a backend.
C8_Witness ==
    /\ runs >= 1
    /\ \E x, y \in SnapshotServices :
          /\ ServiceEnabled(x.s) /\ PortKey \in DOMAIN x.s.Config
          /\ Len(x.s.IPs) = 2 /\ x.s.IPs[1].Address = "" /\ x.s.IPs[2].Address # ""
          /\ ServiceKey(x.s) \in DOMAIN configuration.Services
          /\ Len(configuration.Services[ServiceKey(x.s)].Servers) = 1
          /\ ServiceEnabled(y.s) /\ y.s.IPs = <<>>
          /\ ServiceKey(y.s) \in DOMAIN configuration.Services

\* C9: every service of the input whose traefik.enable is "true" has a
\* router and a backend service, with a non-empty endpoint list, in the
\* output.
C9_EveryEnabledEmitted ==
    runs >= 1 =>
        \A x \in SnapshotServices :
            ServiceEnabled(x.s) =>
                /\ ServiceKey(x.s) \in DOMAIN configuration.Routers
                /\ ServiceKey(x.s) \in DOMAIN configuration.Services
                /\ Len(configuration.Services[ServiceKey(x.s)].Servers) > 0

\* C10: on a snapshot with unique workload IDs, two runs of
\* generateConfiguration, whatever order each takes over the nodes of the
\* map, give the same routers and services, key by key.
C10_Deterministic == runs >= 2 => previous = configuration

\* Synthesis ran twice on a snapshot with two enabled services of the same
\* display name on different nodes, both emitted.
C10_Witness ==
    /\ runs >= 2
    /\ \E x, y \in SnapshotServices :
          /\ x.node # y.node /\ x.s.Name = y.s.Name /\ x.s.ID # y.s.ID
          /\ ServiceKey(x.s) \in DOMAIN configuration.Routers
          /\ ServiceKey(y.s) \in DOMAIN configuration.Routers

\* The services of the snapshot for which synthesis builds a router and a
\* backend: enabled, with at least one endpoint.
EmittedServices ==
    {x \in SnapshotServices : ServiceEnabled(x.s) /\ ExpectedEndpoints(x.s, x.node) # <<>>}

ExpectedRule(s) ==
    IF RuleKey \in DOMAIN s.Config
    THEN s.Config[RuleKey]
    ELSE "Host(" \o BQ \o s.Name \o BQ \o ")"

\* C11: the routers and the backend services of the output have the same
\* keys; every router refers to the service of its own key and has priority
\* 1; every emitted service has its router and backend under "<name>-<id>",
\* with the rule directive verbatim if present and Host(`<name>`) otherwise;
\* emitted services with different IDs have different keys, so the output
\* has as many routers as emitted services.
C11_RouterAndKey ==
    runs >= 1 =>
        /\ DOMAIN configuration.Routers = DOMAIN configuration.Services
        /\ \A k \in DOMAIN configuration.Routers :
              /\ configuration.Routers[k].Service = k
              /\ configuration.Routers[k].Priority = 1
              /\ \E x \in EmittedServices : ServiceKey(x.s) = k
        /\ \A x \in EmittedServices :
              /\ ServiceKey(x.s) \in DOMAIN configuration.Routers
              /\ configuration.Routers[ServiceKey(x.s)].Rule = ExpectedRule(x.s)
        /\ Cardinality(DOMAIN configuration.Routers)
               = Cardinality({x.s.ID : x \in EmittedServices})

\* Synthesis ran on a snapshot with two emitted services of the same display
\* name and different IDs, one with a rule directive and one without: the
\* output has two routers.
C11_Witness ==
    /\ runs >= 1
    /\ Cardinality(DOMAIN configuration.Routers) = 2
    /\ \E x, y \in EmittedServices :
          /\ x.s.Name = y.s.Name /\ x.s.ID # y.s.ID
          /\ RuleKey \in DOMAIN x.s.Config
          /\ RuleKey \notin DOMAIN y.s.Config
          /\ configuration.Routers[ServiceKey(x.s)].Rule = x.s.Config[RuleKey]
          /\ configuration.Routers[ServiceKey(y.s)].Rule # x.s.Config[RuleKey]

====
